---- MODULE Spec2Model ----
(***************************************************************************)
(* Model of the Socket.io chat server (src/server/server.js): the four     *)
(* in-memory stores (users, messages, typingUsers, userRooms), the         *)
(* Socket.io adapter's room subscriptions, and one action per event        *)
(* handler.  Each handler runs to completion (Node's event loop), so each  *)
(* is one atomic action.  `emitted` holds the notifications the last       *)
(* handler sent, each with the set of connections that receive it.         *)
(***************************************************************************)
EXTENDS Integers, Sequences, FiniteSets, TLC

\* ------------------------------------------------------------------ bounds
\* Spec: most steps (events handled and clock advances) of a behaviour.
MaxSteps == 6
\* Spec: most messages ever appended.
MaxMsgs == 2
\* Spec: largest value Date.now() takes (the clock starts at 0).
MaxClock == 1
\* SpecLedger: appends made beyond the ledger's capacity.
MaxOver == 2
\* SpecLedger: private sends interleaved with the room sends.
MaxPrivate == 1
MaxProbes == 3        \* events other than sends under SpecEvict

\* --------------------------------------------------------------- constants
\* messages.length > 100
Capacity == 100

\* Socket ids: unique per connection, never reused.  Ids are opaque, so the
\* connections are numbered in the order they open.
Conns == {"c1", "c2", "c3"}
\* Usernames: non-empty strings, not unique per connection.
Usernames == {"alice", "bob"}
\* Rooms the client offers (DEFAULT_ROOMS, shortened).
RoomNames == {"General", "Tech"}
\* join_room takes any non-empty string (the client's custom room): the
\* offered rooms and, as the one other string tried, the socket id c1.
AnyRoom == RoomNames \cup {"c1"}
\* Reaction symbols (REACTIONS, shortened).
Reactions == {"thumb", "heart"}
\* JavaScript's undefined: an absent key, an absent payload field.
Undefined == "undefined"

VARIABLES
    status,       \* socket id -> "new" | "open" | "closed"
    users,        \* users[socket.id].username, or Undefined
    userRooms,    \* userRooms[socket.id], or Undefined
    typingUsers,  \* typingUsers[socket.id], or Undefined
    messages,     \* the messages array
    joined,       \* Socket.io adapter: the rooms each socket is subscribed to
    now,          \* Date.now()
    emitted,      \* what the last handler emitted, in order
    nAppended,    \* ghost: how many messages were ever appended
    nPrivate,     \* ghost: how many of them were private sends
    nSteps,       \* ghost: how many steps were taken
    hasJoined,    \* ghost: the sockets that handled a user_join
    evictedIds    \* ghost: the ids of the messages shifted out of the array

vars == <<status, users, userRooms, typingUsers, messages, joined, now,
          emitted, nAppended, nPrivate, nSteps, hasJoined, evictedIds>>

\* ----------------------------------------------------------------- helpers
\* The sockets connected to the namespace.
Open == {c \in Conns : status[c] = "open"}

\* io.emit(...): every connected socket.
ToAll == Open

\* ToRoom that skips the subscribers without an entry in users.
ToRoom_OnlyRegistered(room) ==
    {c \in Open : users[c] # Undefined /\ room \in joined[c]}

\* io.to(room).emit(...): every connected socket subscribed to `room`; a
\* socket is subscribed to the room named by its own id from its connection.
ToRoom(room) == {c \in Open : room \in joined[c]}

\* socket.to(room).emit(...): as io.to(room), except the sending socket.
ToRoomExcept(room, socket) == ToRoom(room) \ {socket}

\* One emit call: the event, the handler's socket and argument (ghosts), the
\* address it was sent to ("*" for io.emit), the sockets that receive it and
\* the payload.
Emission(ev, socket, arg, via, to, data) ==
    [ev |-> ev, socket |-> socket, arg |-> arg, via |-> via, to |-> to, data |-> data]

\* UserList keyed by username: one entry per distinct name.
UserList_ByName(u) ==
    {[username |-> n, id |-> CHOOSE c \in Conns : u[c] = n] :
        n \in {u[d] : d \in {d \in Conns : u[d] # Undefined}}}

\* Object.values(users): one {username, id} per registered socket.
UserList(u) == {[username |-> u[c], id |-> c] : c \in {d \in Conns : u[d] # Undefined}}

\* Object.values(typingUsers): the usernames, one per typing socket (a bag:
\* username -> number of occurrences; the order of the list is not kept).
TypingList(t) ==
    LET dom == {c \in Conns : t[c] # Undefined}
    IN  [u \in {t[c] : c \in dom} |-> Cardinality({c \in dom : t[c] = u})]

\* users[socket.id]?.username || 'Anonymous'
SenderName(socket) == IF users[socket] = Undefined THEN "Anonymous" ELSE users[socket]

\* messages.find((m) => m.id === messageId): index of the first match, or 0.
FindIndex(msgs, messageId) ==
    IF \E i \in 1..Len(msgs) : msgs[i].id = messageId
    THEN CHOOSE i \in 1..Len(msgs) :
            /\ msgs[i].id = messageId
            /\ \A j \in 1..(i - 1) : msgs[j].id # messageId
    ELSE 0

\* array.includes(x)
Includes(arr, x) == \E i \in 1..Len(arr) : arr[i] = x

\* PushShift with the eviction dropping the new message instead of the oldest.
PushShift_DropNewest(arr, m) ==
    IF Len(arr) + 1 > Capacity THEN arr ELSE Append(arr, m)

\* messages.push(m); if (messages.length > 100) messages.shift();
PushShift(arr, m) ==
    IF Len(arr) + 1 > Capacity THEN Tail(Append(arr, m)) ELSE Append(arr, m)

\* ghost: the ids shifted out once m is pushed onto arr.
ShiftedOut(arr) == IF Len(arr) + 1 > Capacity THEN {arr[1].id} ELSE {}

\* A message without a reactions field: no symbol has a username list.
NoReactions == [r \in Reactions |-> <<>>]

\* Delete with the entry left in place.
Delete_Keep(store, socket) == store

\* delete store[socket.id]
Delete(store, socket) == [store EXCEPT ![socket] = Undefined]

\* ------------------------------------------------------------------- Init
Init ==
    /\ status = [c \in Conns |-> "new"]
    /\ users = [c \in Conns |-> Undefined]
    /\ userRooms = [c \in Conns |-> Undefined]
    /\ typingUsers = [c \in Conns |-> Undefined]
    /\ messages = <<>>
    /\ joined = [c \in Conns |-> {}]
    /\ now = 0
    /\ emitted = <<>>
    /\ nAppended = 0
    /\ nPrivate = 0
    /\ nSteps = 0
    /\ hasJoined = {}
    /\ evictedIds = {}

\* ---------------------------------------------------------------- actions
\* io.on('connection'): a new socket, subscribed to the room of its own id.
connection(socket) ==
    /\ status[socket] = "new"
    /\ nSteps' = nSteps + 1
    /\ status' = [status EXCEPT ![socket] = "open"]
    /\ joined' = [joined EXCEPT ![socket] = {socket}]
    /\ emitted' = <<>>
    /\ UNCHANGED <<users, userRooms, typingUsers, messages, nAppended, nPrivate, now, hasJoined, evictedIds>>

\* socket.on('user_join')
user_join(socket, username) ==
    /\ status[socket] = "open"
    /\ nSteps' = nSteps + 1
    /\ users' = [users EXCEPT ![socket] = username]
    /\ userRooms' = [userRooms EXCEPT ![socket] = "General"]
    /\ joined' = [joined EXCEPT ![socket] = @ \cup {"General"}]
    /\ emitted' = << Emission("user_list", socket, username, "*", ToAll, UserList(users')),
                     Emission("user_joined", socket, username, "*", ToAll,
                              [username |-> username, id |-> socket]) >>
    /\ hasJoined' = hasJoined \cup {socket}
    /\ UNCHANGED <<status, typingUsers, messages, nAppended, nPrivate, now, evictedIds>>

\* socket.on('join_room')
join_room(socket, room) ==
    /\ status[socket] = "open"
    /\ nSteps' = nSteps + 1
    /\ LET prevRoom == userRooms[socket]
           left == IF prevRoom # Undefined THEN joined[socket] \ {prevRoom} ELSE joined[socket]
       IN  joined' = [joined EXCEPT ![socket] = left \cup {room}]
    /\ userRooms' = [userRooms EXCEPT ![socket] = room]
    /\ emitted' = <<>>
    /\ UNCHANGED <<status, users, typingUsers, messages, nAppended, nPrivate, now, hasJoined, evictedIds>>

\* TargetRoom without the sender's membership.
TargetRoom_AlwaysGeneral(socket, messageData) ==
    IF messageData.room # Undefined THEN messageData.room ELSE "General"

\* messageData.room || userRooms[socket.id] || 'General'
TargetRoom(socket, messageData) ==
    IF messageData.room # Undefined THEN messageData.room
    ELSE IF userRooms[socket] # Undefined THEN userRooms[socket]
    ELSE "General"

\* The message object send_message builds: the payload's fields spread first
\* (isPrivate among them), then id, sender, senderId, room and readBy set by
\* the server.  seq is a ghost: the message's append number.
RoomMessage(socket, messageData) ==
    [ id |-> now,
      sender |-> SenderName(socket),
      senderId |-> socket,
      room |-> TargetRoom(socket, messageData),
      isPrivate |-> messageData.isPrivate,
      readBy |-> <<users[socket]>>,
      reactions |-> NoReactions,
      seq |-> nAppended + 1 ]

\* socket.on('send_message')
send_message(socket, messageData) ==
    /\ status[socket] = "open"
    /\ nSteps' = nSteps + 1
    /\ LET message == RoomMessage(socket, messageData)
       IN  /\ messages' = PushShift(messages, message)
           /\ emitted' = << Emission("receive_message", socket, messageData, message.room,
                                     ToRoom(message.room), message) >>
    /\ nAppended' = nAppended + 1
    /\ evictedIds' = evictedIds \cup ShiftedOut(messages)
    /\ UNCHANGED <<status, users, userRooms, typingUsers, nPrivate, joined, now, hasJoined>>

\* typing that emits to the sender's room only.
typing_RoomScoped(socket, isTyping) ==
    /\ status[socket] = "open"
    /\ nSteps' = nSteps + 1
    /\ IF users[socket] # Undefined
       THEN /\ typingUsers' = IF isTyping
                              THEN [typingUsers EXCEPT ![socket] = users[socket]]
                              ELSE Delete(typingUsers, socket)
            /\ emitted' = << Emission("typing_users", socket, isTyping, userRooms[socket],
                                      ToRoom(userRooms[socket]), TypingList(typingUsers')) >>
       ELSE /\ typingUsers' = typingUsers
            /\ emitted' = <<>>
    /\ UNCHANGED <<status, users, userRooms, messages, nAppended, nPrivate, joined, now, hasJoined, evictedIds>>

\* socket.on('typing')
typing(socket, isTyping) ==
    /\ status[socket] = "open"
    /\ nSteps' = nSteps + 1
    /\ IF users[socket] # Undefined
       THEN /\ typingUsers' = IF isTyping
                              THEN [typingUsers EXCEPT ![socket] = users[socket]]
                              ELSE Delete(typingUsers, socket)
            /\ emitted' = << Emission("typing_users", socket, isTyping, "*", ToAll,
                                      TypingList(typingUsers')) >>
       ELSE /\ typingUsers' = typingUsers
            /\ emitted' = <<>>
    /\ UNCHANGED <<status, users, userRooms, messages, nAppended, nPrivate, joined, now, hasJoined, evictedIds>>

\* The message object private_message builds (it has no room field).
PrivateMessage(socket) ==
    [ id |-> now,
      sender |-> SenderName(socket),
      senderId |-> socket,
      room |-> Undefined,
      isPrivate |-> TRUE,
      readBy |-> <<users[socket]>>,
      reactions |-> NoReactions,
      seq |-> nAppended + 1 ]

\* socket.on('private_message')
private_message(socket, to) ==
    /\ status[socket] = "open"
    /\ nSteps' = nSteps + 1
    /\ LET messageData == PrivateMessage(socket)
       IN  /\ emitted' = << Emission("private_message", socket, to, to,
                                     ToRoomExcept(to, socket), messageData),
                            Emission("private_message", socket, to, socket,
                                     {socket}, messageData) >>
           /\ messages' = PushShift(messages, messageData)
    /\ nAppended' = nAppended + 1
    /\ nPrivate' = nPrivate + 1
    /\ evictedIds' = evictedIds \cup ShiftedOut(messages)
    /\ UNCHANGED <<status, users, userRooms, typingUsers, joined, now, hasJoined>>

\* The address of a message_read notification: msg.senderId for a message
\* flagged isPrivate, else msg.room, else none.
ReadAddress(msg) ==
    IF msg.isPrivate THEN msg.senderId
    ELSE IF msg.room # Undefined THEN msg.room
    ELSE Undefined

\* CanMarkRead without the includes test.
CanMarkRead_NoIncludes(msgs, i, user) ==
    /\ i # 0
    /\ user # Undefined

\* msg && user && !msg.readBy?.includes(user)
CanMarkRead(msgs, i, user) ==
    /\ i # 0
    /\ user # Undefined
    /\ ~Includes(msgs[i].readBy, user)

\* socket.on('read_message')
read_message(socket, messageId) ==
    /\ status[socket] = "open"
    /\ nSteps' = nSteps + 1
    /\ LET user == users[socket]
           i == FindIndex(messages, messageId)
       IN  IF CanMarkRead(messages, i, user)
           THEN /\ messages' = [messages EXCEPT ![i].readBy = Append(@, user)]
                /\ emitted' =
                      IF ReadAddress(messages[i]) # Undefined
                      THEN << Emission("message_read", socket, messageId,
                                       ReadAddress(messages[i]),
                                       ToRoom(ReadAddress(messages[i])),
                                       [messageId |-> messageId,
                                        readBy |-> messages'[i].readBy]) >>
                      ELSE <<>>
           ELSE /\ messages' = messages
                /\ emitted' = <<>>
    /\ UNCHANGED <<status, users, userRooms, typingUsers, nAppended, nPrivate, joined, now, hasJoined, evictedIds>>

\* AddReaction without the includes test.
AddReaction_Always(reactions, reaction, username) ==
    [reactions EXCEPT ![reaction] = Append(@, username)]

\* msg.reactions[reaction] = msg.reactions[reaction] || [];
\* if (!msg.reactions[reaction].includes(username)) msg.reactions[reaction].push(username)
AddReaction(reactions, reaction, username) ==
    IF Includes(reactions[reaction], username)
    THEN reactions
    ELSE [reactions EXCEPT ![reaction] = Append(@, username)]

\* The address of a message_reacted notification: msg.senderId for a message
\* flagged isPrivate, else msg.room, else every socket.
ReactAddress(msg) ==
    IF msg.isPrivate THEN msg.senderId
    ELSE IF msg.room # Undefined THEN msg.room
    ELSE "*"

\* socket.on('react_message')
react_message(socket, messageId, reaction, username) ==
    /\ status[socket] = "open"
    /\ nSteps' = nSteps + 1
    /\ LET i == FindIndex(messages, messageId)
       IN  IF i # 0
           THEN /\ messages' = [messages EXCEPT
                                   ![i].reactions = AddReaction(@, reaction, username)]
                /\ emitted' = << Emission("message_reacted", socket,
                                          [messageId |-> messageId, reaction |-> reaction,
                                           username |-> username],
                                          ReactAddress(messages[i]),
                                          IF ReactAddress(messages[i]) = "*" THEN ToAll
                                          ELSE ToRoom(ReactAddress(messages[i])),
                                          [messageId |-> messageId,
                                           reactions |-> messages'[i].reactions]) >>
           ELSE /\ messages' = messages
                /\ emitted' = <<>>
    /\ UNCHANGED <<status, users, userRooms, typingUsers, nAppended, nPrivate, joined, now, hasJoined, evictedIds>>

\* socket.on('disconnect'): Socket.io has already removed the socket from
\* every room and from the namespace when the handler runs.
disconnect(socket) ==
    /\ status[socket] = "open"
    /\ nSteps' = nSteps + 1
    /\ status' = [status EXCEPT ![socket] = "closed"]
    /\ joined' = [joined EXCEPT ![socket] = {}]
    /\ users' = Delete(users, socket)
    /\ typingUsers' = Delete(typingUsers, socket)
    /\ userRooms' = Delete(userRooms, socket)
    /\ LET remaining == Open \ {socket}
           left == IF users[socket] # Undefined
                   THEN << Emission("user_left", socket, Undefined, "*", remaining,
                                    [username |-> users[socket], id |-> socket]) >>
                   ELSE <<>>
       IN  emitted' = left \o
                << Emission("user_list", socket, Undefined, "*", remaining, UserList(users')),
                   Emission("typing_users", socket, Undefined, "*", remaining,
                            TypingList(typingUsers')) >>
    /\ UNCHANGED <<messages, nAppended, nPrivate, now, hasJoined, evictedIds>>

\* Date.now() advances between two events.
Tick ==
    /\ now' = now + 1
    /\ nSteps' = nSteps + 1
    /\ emitted' = <<>>
    /\ UNCHANGED <<status, users, userRooms, typingUsers, messages, nAppended, nPrivate, joined, hasJoined, evictedIds>>

\* ------------------------------------------------------------------ inputs
\* The payloads of send_message: an optional room (one the client offers)
\* and an optional isPrivate flag (sendFileMessage sets it); an absent flag
\* and a false one are both FALSE.
MessagePayloads == [room : RoomNames \cup {Undefined}, isPrivate : BOOLEAN]

\* A message id a client can name: any clock value.
MessageIds == 0..MaxClock

\* Socket ids are handed out in the order c1, c2, c3.
NextToOpen(c) ==
    /\ c = "c2" => status["c1"] # "new"
    /\ c = "c3" => status["c2"] # "new"

\* ---------------------------------------------------------- specifications
\* Spec stops after MaxSteps steps.
InBudget == nSteps < MaxSteps

Next ==
    \/ \E c \in Conns : InBudget /\ NextToOpen(c) /\ connection(c)
    \/ \E c \in Conns, u \in Usernames : InBudget /\ user_join(c, u)
    \/ \E c \in Conns, r \in AnyRoom : InBudget /\ join_room(c, r)
    \/ \E c \in Conns, d \in MessagePayloads :
          InBudget /\ nAppended < MaxMsgs /\ send_message(c, d)
    \/ \E c \in Conns, b \in BOOLEAN : InBudget /\ typing(c, b)
    \/ \E c \in Conns, to \in Conns :
          InBudget /\ nAppended < MaxMsgs /\ private_message(c, to)
    \/ \E c \in Conns, id \in MessageIds : InBudget /\ read_message(c, id)
    \/ \E c \in Conns, id \in MessageIds, r \in Reactions, u \in Usernames :
          InBudget /\ react_message(c, id, r, u)
    \/ \E c \in Conns : InBudget /\ disconnect(c)
    \/ InBudget /\ now < MaxClock /\ Tick

Spec == Init /\ [][Next]_vars

\* The ledger alone: one connection appends room and private messages past
\* the capacity.
NextLedger ==
    \/ connection("c1")
    \/ /\ nAppended < Capacity + MaxOver
       /\ send_message("c1", [room |-> Undefined, isPrivate |-> FALSE])
    \/ /\ nAppended < Capacity + MaxOver
       /\ nPrivate < MaxPrivate
       /\ private_message("c1", "c2")

SpecLedger == Init /\ [][NextLedger]_vars

\* The ledger past its capacity, then probed: one connection sends room
\* messages until MaxOver of them are shifted out; besides the sends at most
\* MaxProbes other events happen (the connection itself, a user_join, a clock
\* tick, read_message and react_message with the ids the clock has produced).
InProbes == nSteps - nAppended < MaxProbes

NextEvict ==
    \/ InProbes /\ connection("c1")
    \/ InProbes /\ user_join("c1", "alice")
    \/ /\ nAppended < Capacity + MaxOver
       /\ send_message("c1", [room |-> Undefined, isPrivate |-> FALSE])
    \/ InProbes /\ now < MaxClock /\ Tick
    \/ \E id \in MessageIds : InProbes /\ read_message("c1", id)
    \/ \E id \in MessageIds : InProbes /\ react_message("c1", id, "thumb", "alice")

SpecEvict == Init /\ [][NextEvict]_vars

\* ------------------------------------------------------------------ claims
\* The positions in `emitted` of the emissions of event ev.
EmittedAt(ev) == {i \in 1..Len(emitted) : emitted[i].ev = ev}

\* The connections whose recorded membership (userRooms) is `room`.
MembersOf(room) == {c \in Conns : userRooms[c] = room}

\* No value occurs twice in the list.
NoDuplicates(arr) == \A i, j \in 1..Len(arr) : i # j => arr[i] # arr[j]

\* How often x occurs in the list.
Occurrences(arr, x) == Cardinality({i \in 1..Len(arr) : arr[i] = x})

\* The stored message a notification about messageId is about.
Found(messageId) == messages[FindIndex(messages, messageId)]

\* C1: room isolation.  A receive_message notification for room R reaches
\* only connections whose recorded membership is R when the send is handled.
C1_RoomIsolation ==
    \A i \in EmittedAt("receive_message") :
        emitted[i].to \subseteq MembersOf(emitted[i].data.room)

\* C2: a private message from S to `to` reaches exactly S and the live
\* connection with id `to` (only S when there is none); no third connection.
C2_PrivateExactlyTwo ==
    EmittedAt("private_message") # {} =>
        LET S == emitted[1].socket
            to == emitted[1].arg
        IN  UNION {emitted[i].to : i \in EmittedAt("private_message")}
                = {S} \cup ({to} \cap Open)

\* C3: the ledger never holds more than 100 messages, and after n appends
\* (room and private) it holds exactly the latest min(n, 100) of them, in
\* the order they were sent.
C3_LedgerCapacity ==
    /\ Len(messages) <= Capacity
    /\ Len(messages) = IF nAppended < Capacity THEN nAppended ELSE Capacity
    /\ \A i \in 1..Len(messages) : messages[i].seq = nAppended - Len(messages) + i

\* C3 witness: more than 100 appends, a private one among them, were made
\* and the ledger is full.
C3_Witness ==
    /\ nAppended > Capacity
    /\ nPrivate > 0
    /\ Len(messages) = Capacity

\* C4: message ids are unique and strictly increasing in append order, also
\* for two sends handled at the same clock value.
C4_IdsStrictlyIncreasing ==
    \A i, j \in 1..Len(messages) : i < j => messages[i].id < messages[j].id

\* C5: a send_message without a room argument from a joined connection C
\* with username U appends a message whose room is C's membership, whose
\* sender is U and whose readBy is exactly U.
C5_DefaultRoomAndReadBy ==
    \A i \in EmittedAt("receive_message") :
        LET e == emitted[i]
        IN  (e.arg.room = Undefined /\ users[e.socket] # Undefined) =>
                /\ e.data.room = userRooms[e.socket]
                /\ e.data.sender = users[e.socket]
                /\ e.data.readBy = <<users[e.socket]>>
                /\ messages[Len(messages)] = e.data

\* C5 witness: a joined connection that moved to Tech sent without a room.
C5_Witness ==
    \E i \in EmittedAt("receive_message") :
        /\ emitted[i].arg.room = Undefined
        /\ users[emitted[i].socket] # Undefined
        /\ emitted[i].data.room = "Tech"

\* C6: no stored message's readBy holds the same username twice.
C6_ReadByNoDuplicates ==
    \A k \in 1..Len(messages) : NoDuplicates(messages[k].readBy)

\* C6 witness: a read was recorded for a username that two open connections
\* share.
C6_Witness ==
    \E i \in EmittedAt("message_read") :
        /\ Len(emitted[i].data.readBy) >= 2
        /\ \E c, d \in Open :
              /\ c # d
              /\ c = emitted[i].socket
              /\ users[c] = users[d]

LiveTyping == [c \in Conns |-> IF status[c] = "open" THEN typingUsers[c] ELSE Undefined]

\* C8, in one state: a disconnected connection has no entry in users,
\* userRooms or typingUsers, and no presence list or typing set that is
\* broadcast lists it.
DisconnectedIsGone ==
    \A c \in Conns : status[c] = "closed" =>
        /\ users[c] = Undefined
        /\ userRooms[c] = Undefined
        /\ typingUsers[c] = Undefined
        /\ \A i \in EmittedAt("user_list") : \A u \in emitted[i].data : u.id # c
        /\ \A i \in EmittedAt("typing_users") : emitted[i].data = TypingList(LiveTyping)

\* C8: disconnect cleanup holds from the disconnect on: a disconnected
\* connection stays disconnected, and is gone from every store and
\* broadcast in every state.
C8_DisconnectCleanup ==
    /\ []DisconnectedIsGone
    /\ [][\A c \in Conns : status[c] = "closed" => status'[c] = "closed"]_vars

\* C8 witness: a registered connection disconnected while another one, still
\* connected, was typing.
C8_Witness ==
    \E i \in EmittedAt("user_left") :
        /\ status[emitted[i].socket] = "closed"
        /\ emitted[i].to # {}
        /\ \E c \in Open : typingUsers[c] # Undefined

\* C9: a read receipt for a private message goes only to the connection
\* that sent the message; one for a room message goes to exactly the
\* connections whose membership is the message's room.
C9_ReadReceiptScope ==
    \A i \in EmittedAt("message_read") :
        LET msg == Found(emitted[i].data.messageId)
        IN  IF msg.room = Undefined
            THEN emitted[i].to \subseteq {msg.senderId}
            ELSE emitted[i].to = MembersOf(msg.room)

\* C10: a reaction update goes only to the sender's connection for a private
\* message, to exactly the members of the message's room for a room message,
\* and to every connection only for a message with neither scope.
C10_ReactionScope ==
    \A i \in EmittedAt("message_reacted") :
        LET msg == Found(emitted[i].data.messageId)
        IN  IF msg.room # Undefined THEN emitted[i].to = MembersOf(msg.room)
            ELSE IF msg.isPrivate THEN emitted[i].to \subseteq {msg.senderId}
            ELSE emitted[i].to = Open

\* The sockets that are registered in users and still connected.
Registered == {c \in Open : users[c] # Undefined}

\* C11: single-room invariant. A joined connection is subscribed, for room
\* delivery, to the room of its membership entry and to no other named group:
\* besides the room named by its own id, which every socket is in, its
\* subscriptions are exactly {userRooms[c]}.
C11_SingleRoom ==
    \A c \in Registered :
        /\ userRooms[c] \in joined[c]
        /\ joined[c] \subseteq {c, userRooms[c]}

\* C12: a user_join on a connection that is already registered is rejected:
\* it neither replaces the username nor resets the room membership.
C12_DuplicateJoinRejected ==
    [][\A c \in Conns, u \in Usernames :
          (user_join(c, u) /\ users[c] # Undefined)
              => (users'[c] = users[c] /\ userRooms'[c] = userRooms[c])]_vars

\* C13: send_message resolves its room as the payload's room if it has one,
\* else the sender's membership, else "General", and the message is delivered
\* to every connection whose membership is that room, whether or not the
\* sender is one of them.
C13_SendReachesEveryMember ==
    \A i \in EmittedAt("receive_message") :
        LET e == emitted[i]
            target == IF e.arg.room # Undefined THEN e.arg.room
                      ELSE IF userRooms[e.socket] # Undefined THEN userRooms[e.socket]
                      ELSE "General"
        IN  /\ e.data.room = target
            /\ e.via = target
            /\ MembersOf(target) \subseteq e.to

\* An explicit room that is not the sender's, with a member that is not
\* registered among its receivers.
C13_Witness ==
    \E i \in EmittedAt("receive_message") :
        /\ emitted[i].arg.room = "Tech"
        /\ userRooms[emitted[i].socket] # "Tech"
        /\ \E c \in MembersOf("Tech") : users[c] = Undefined /\ c \in emitted[i].to

\* C14: presence count. The user list has exactly one entry per connection
\* that has joined and not yet disconnected, and every user_list broadcast by
\* user_join or disconnect equals the registry as the handler left it.
C14_PresenceCount ==
    /\ Cardinality(UserList(users)) = Cardinality(hasJoined \cap Open)
    /\ {e.id : e \in UserList(users)} = hasJoined \cap Open
    /\ \A i \in EmittedAt("user_list") :
           /\ emitted[i].data = UserList(users)
           /\ Cardinality(emitted[i].data) = Cardinality(hasJoined \cap Open)

\* A disconnect broadcasts the list of the one connection left of the two that
\* joined under the same username.
C14_Witness ==
    \E i \in EmittedAt("user_list") :
        /\ status[emitted[i].socket] = "closed"
        /\ emitted[i].socket \in hasJoined
        /\ Cardinality(hasJoined) = 2
        /\ Cardinality(emitted[i].data) = 1
        /\ \A c \in hasJoined \cap Open : users[c] = "alice"

\* What a typing event of socket c with flag b is claimed to do: c's entry in
\* typingUsers is set to its username (b) or removed (not b), the other
\* entries stay, and one typing_users emission reaches every connected socket
\* with the usernames of the entries left by the mutation.
TypingEffect(c, b) ==
    /\ typingUsers'[c] = IF b THEN users[c] ELSE Undefined
    /\ \A d \in Conns \ {c} : typingUsers'[d] = typingUsers[d]
    /\ Len(emitted') = 1
    /\ emitted'[1].ev = "typing_users"
    /\ emitted'[1].to = Open
    /\ DOMAIN emitted'[1].data =
           {typingUsers'[d] : d \in {x \in Conns : typingUsers'[x] # Undefined}}

C16_EvictedIdsAreDead ==
    [][\A c \in Conns, id \in evictedIds :
          (\/ read_message(c, id)
           \/ \E r \in Reactions, u \in Usernames : react_message(c, id, r, u))
              => (messages' = messages /\ emitted' = <<>>)]_vars

\* C17: join_room is only effective for a joined connection: every
\* connection with a room membership entry is registered.
C17_MembershipImpliesRegistered ==
    \A c \in Conns : userRooms[c] # Undefined => users[c] # Undefined

\* C18: missing-user default. A send_message from an unregistered connection
\* is stored with sender "Anonymous" (and room "General" when the payload has
\* no room), and every readBy entry of every stored message is a username,
\* never undefined.
C18_AnonymousDefaults ==
    /\ \A i \in EmittedAt("receive_message") :
           users[emitted[i].socket] = Undefined =>
               /\ emitted[i].data.sender = "Anonymous"
               /\ emitted[i].arg.room = Undefined => emitted[i].data.room = "General"
    /\ \A k \in 1..Len(messages) :
           \A j \in 1..Len(messages[k].readBy) : messages[k].readBy[j] \in Usernames

\* C19: typing tracker consistency. Every connection with a typing entry is
\* registered, and the username stored in typingUsers is its current username
\* in users.
C19_TypingMatchesRegistry ==
    \A c \in Conns :
        typingUsers[c] # Undefined =>
            (users[c] # Undefined /\ typingUsers[c] = users[c])

\* C20: reaction attribution. The username a react_message records under a
\* reaction is the username users holds for the reacting connection, which is
\* therefore registered.
C20_ReactionAttribution ==
    \A i \in EmittedAt("message_reacted") :
        /\ users[emitted[i].socket] # Undefined
        /\ emitted[i].arg.username = users[emitted[i].socket]

\* C21: scope integrity of room messages. A message built by send_message is
\* stored with its room and never flagged private, whatever the payload
\* carries, so the message_read and message_reacted notifications for it are
\* addressed to its room and never to the sender alone.
C21_RoomMessagesStayRoomScoped ==
    /\ \A i \in EmittedAt("receive_message") :
           /\ emitted[i].data.room # Undefined
           /\ ~emitted[i].data.isPrivate
    /\ \A k \in 1..Len(messages) :
           messages[k].room # Undefined => ~messages[k].isPrivate
    /\ \A ev \in {"message_read", "message_reacted"} :
           \A i \in EmittedAt(ev) :
               LET msg == Found(emitted[i].data.messageId)
               IN  msg.room # Undefined =>
                       /\ emitted[i].via = msg.room
                       /\ emitted[i].to = ToRoom(msg.room)

====
